---- MODULE Spec2Model ----
(***************************************************************************)
(* Vocabulary study/test engine of src/app.py: the flashcard session state *)
(* machine kept in st.session_state (start_flashcard_session,              *)
(* render_flashcard_session), the mastery / test-wrong store               *)
(* (update_vocab_progress) and the buttons of vocab_study_session that     *)
(* build a queue.  Every button click is one script run and is modelled as *)
(* one atomic action.  Text is modelled as a sequence of one-character     *)
(* strings so that str.strip, str.lower and number formatting are computed *)
(* rather than assumed.                                                    *)
(***************************************************************************)
EXTENDS Integers, Sequences, FiniteSets, TLC

\* ------------------------------------------------------------------ bounds
\* At most MaxSessions sessions are started in one behaviour.
MaxSessions == 2
\* A cumulative test is only started as one of the first MaxTests sessions.
MaxTests == 1

\* ------------------------------------------------------- program constants
\* st.number_input("문제 수", 5, ...): the smallest number of test questions.
MinQuestions == 5

\* ------------------------------------------------------------------- text
Digits == <<"0", "1", "2", "3", "4", "5", "6", "7", "8", "9">>

\* str(n) for 0 <= n <= 99
NatToStr(n) ==
    IF n < 10 THEN <<Digits[n + 1]>>
    ELSE <<Digits[(n \div 10) + 1], Digits[(n % 10) + 1]>>

DigitVal(c) == (CHOOSE i \in 1..10 : Digits[i] = c) - 1

RECURSIVE StrToNatAcc(_, _)
StrToNatAcc(s, acc) ==
    IF s = <<>> THEN acc
    ELSE StrToNatAcc(Tail(s), acc * 10 + DigitVal(Head(s)))

\* int(float(s)) for a string of decimal digits
StrToNat(s) == StrToNatAcc(s, 0)

\* str.lower() on the letters used by the catalog and the inputs
LowerChar(c) ==
    CASE c = "A" -> "a"
      [] c = "B" -> "b"
      [] OTHER -> c

\* the text is compared as typed
lowerKeepsCase(s) == s

lower(s) == [i \in 1..Len(s) |-> LowerChar(s[i])]

RECURSIVE lstrip(_)
lstrip(s) ==
    IF s # <<>> /\ Head(s) = " " THEN lstrip(Tail(s)) ELSE s

RECURSIVE rstrip(_)
rstrip(s) ==
    IF s # <<>> /\ s[Len(s)] = " " THEN rstrip(SubSeq(s, 1, Len(s) - 1)) ELSE s

\* str.strip()
strip(s) == rstrip(lstrip(s))

\* --------------------------------------------------------------- the data
Students == {"s1", "s2"}

\* datetime.now().strftime("%Y-%m-%d"): one day is modelled
Today == "day0"

W_AT == <<"a", "t">>
W_BE == <<"b", "e">>
W_DO == <<"d", "o">>
W_GO == <<"g", "o">>
W_IN == <<"i", "n">>

\* The 'vocab' tab.  The word "at" is in two books; book b1 has five words
\* over three days, so that a cumulative test of MinQuestions words exists.
Catalog ==
    << [book |-> "b1", day |-> 1, word |-> W_AT, meaning |-> "m1"],
       [book |-> "b1", day |-> 2, word |-> W_BE, meaning |-> "m2"],
       [book |-> "b1", day |-> 2, word |-> W_DO, meaning |-> "m3"],
       [book |-> "b1", day |-> 3, word |-> W_GO, meaning |-> "m3"],
       [book |-> "b1", day |-> 3, word |-> W_IN, meaning |-> "m3"],
       [book |-> "b2", day |-> 1, word |-> W_AT, meaning |-> "m6"] >>

Books == {Catalog[i].book : i \in 1..Len(Catalog)}
Days == {Catalog[i].day : i \in 1..Len(Catalog)}
Words == {Catalog[i].word : i \in 1..Len(Catalog)}

\* What the student may type into the answer box.
UserInputs ==
    {W_AT, W_BE, W_DO, W_GO, W_IN, <<"A", "t">>, <<" ", "a", "t", " ">>, <<"a">>, <<>>}

LearnModes == {"learning", "subjective", "review"}
TestModes == {"test_objective", "test_subjective"}
Modes == LearnModes \cup TestModes

IsTestObjectiveOnly(mode) == mode = "test_objective"

IsTestNotLearning(mode) == mode # "learning"

\* 'test' in mode
IsTest(mode) == mode \in TestModes

None == "None"

\* current_options = NoOptions; a generated option list is never empty
NoOptions == <<>>

\* ------------------------------------------------------------------ state
VARIABLES
    \* the spreadsheet tabs
    vocab,               \* rows [book, day, word, meaning]
    vocab_prog,          \* rows [student_id, book, word, streak, status]
    vocab_test_wrongs,   \* rows [student_id, book, word, date]
    vocab_test_log,      \* rows [student_id, date, info, score]
    \* st.session_state
    logged_in, user_id,
    vocab_session, study_list, current_word_idx, show_meaning, session_mode,
    session_user, test_score, test_info, last_result, show_answer_sub,
    current_options,
    \* history: the handler that ran last, what it found, and the number of
    \* sessions started
    last_op, pre, n_sessions

tabs == <<vocab, vocab_prog, vocab_test_wrongs, vocab_test_log>>
login == <<logged_in, user_id>>
session == <<vocab_session, study_list, current_word_idx, show_meaning,
             session_mode, session_user, test_score, test_info, last_result,
             show_answer_sub, current_options>>
vars == <<tabs, login, session, last_op, pre, n_sessions>>

\* what start_flashcard_session is called with and the per-card state it
\* finds, the text a submission carries and the option a click is on; the
\* other handlers take no such input
NoCall ==
    [items |-> <<>>, mode |-> None, uid |-> None, info |-> <<>>,
     shown |-> FALSE, revealed |-> FALSE, opts |-> NoOptions, result |-> None,
     typed |-> <<>>, opt |-> None, loaded |-> TRUE]

\* what a handler finds when it starts; hist is how each queue position below
\* the cursor was left ("correct" or "wrong"), kept from handler to handler
Snapshot ==
    [idx |-> current_word_idx, list |-> study_list, prog |-> vocab_prog,
     tw |-> vocab_test_wrongs, log |-> vocab_test_log, score |-> test_score,
     active |-> vocab_session, call |-> NoCall, hist |-> pre.hist]

\* the handler op runs
Ran(op) ==
    /\ last_op' = op
    /\ pre' = Snapshot

\* the handler op runs on the text of the answer box
RanTyped(op, text) ==
    /\ last_op' = op
    /\ pre' = [Snapshot EXCEPT !.call.typed = text]

\* the handler op records an answer given with the input call and leaves the
\* card; loaded tells whether the tab it loads comes back as stored
RanLoading(op, call, loaded) ==
    /\ last_op' = op
    /\ pre' = [Snapshot EXCEPT
                   !.call = [call EXCEPT !.loaded = loaded],
                   !.hist = Append(pre.hist, IF last_result' = "correct"
                                             THEN "correct" ELSE "wrong")]

\* ------------------------------------------------------------ list helpers
Range(s) == {s[i] : i \in 1..Len(s)}

\* every list of Len(s) draws from s, repeats allowed
PermsWithRepeats(s) == [1..Len(s) -> Range(s)]

\* All orders random.shuffle can leave a list in.
Perms(s) ==
    LET n == Len(s)
        Bij == {f \in [1..n -> 1..n] : \A i, j \in 1..n : i # j => f[i] # f[j]}
    IN {[i \in 1..n |-> s[p[i]]] : p \in Bij}

RECURSIVE Flatten(_)
Flatten(ss) == IF ss = <<>> THEN <<>> ELSE Head(ss) \o Flatten(Tail(ss))

\* pd.merge(left, df_vocab, on=['book', 'word'], how='left') projected on the
\* columns book, day, word, meaning; every left row has a catalog row here.
MergeVocab(left) ==
    Flatten([i \in 1..Len(left) |->
        SelectSeq(vocab, LAMBDA v : v.book = left[i].book /\ v.word = left[i].word)])

\* pool.sample(n=n).to_dict('records'): n different rows of pool.  The rows are
\* listed in pool order here; start_flashcard_session shuffles them next, so
\* the random order sample gives them adds no further queue.
Sample(pool, n) ==
    LET m == Len(pool)
        Inc == {f \in [1..n -> 1..m] : \A i, j \in 1..n : i < j => f[i] < f[j]}
    IN {[i \in 1..n |-> pool[f[i]]] : f \in Inc}

\* every list a set can be turned into: list(set(...))
SetToSeqs(S) ==
    LET n == Cardinality(S)
    IN {f \in [1..n -> S] : \A i, j \in 1..n : i # j => f[i] # f[j]}

Max(a, b) == IF a >= b THEN a ELSE b

InitWith(catalog, progs, tws) ==
    /\ vocab = catalog
    /\ vocab_prog \in progs
    /\ vocab_test_wrongs \in tws
    /\ vocab_test_log = <<>>
    /\ logged_in = FALSE
    /\ user_id = None
    /\ vocab_session = FALSE
    /\ study_list = <<>>
    /\ current_word_idx = 0
    /\ show_meaning = FALSE
    /\ session_mode = None
    /\ session_user = None
    /\ test_score = 0
    /\ test_info = <<>>
    /\ last_result = None
    /\ show_answer_sub = FALSE
    /\ current_options = NoOptions
    /\ last_op = "init"
    /\ pre = [idx |-> 0, list |-> <<>>, prog |-> vocab_prog,
              tw |-> vocab_test_wrongs, log |-> <<>>, score |-> 0,
              active |-> FALSE, call |-> NoCall, hist |-> <<>>]
    /\ n_sessions = 0

\* ----------------------------------------------------------- mastery store
\* one correct answer is enough for a word that is being learned
MasterThresholdOne(mode, current_status) ==
    IF mode = "subjective" \/ current_status = "learning" THEN 1 ELSE 4

MasterThresholdAnd(mode, current_status) ==
    IF mode = "subjective" /\ current_status = "learning" THEN 2 ELSE 4

\* master_threshold = 2 if mode == 'subjective' or current_status == 'learning' else 4
MasterThreshold(mode, current_status) ==
    IF mode = "subjective" \/ current_status = "learning" THEN 2 ELSE 4

NewStreakKept(is_correct, streak) == IF is_correct THEN streak + 1 ELSE streak

\* the streak after the answer
NewStreak(is_correct, streak) == IF is_correct THEN streak + 1 ELSE 0

NewStatusEarly(is_correct, streak, master_threshold) ==
    IF is_correct
    THEN IF streak + 1 >= master_threshold THEN "mastered" ELSE "learning"
    ELSE "learning"

\* the status after the answer; streak is the streak after the answer
NewStatus(is_correct, streak, master_threshold) ==
    IF is_correct
    THEN IF streak >= master_threshold THEN "mastered" ELSE "learning"
    ELSE "learning"

\* mask of the answered record in vocab_prog
ProgMask(r, uid, word_data) ==
    /\ r.student_id = uid
    /\ r.book = word_data.book
    /\ r.word = word_data.word

HasTestWrongAnyStudent(df_t_wrong, uid, word_data) ==
    \E i \in 1..Len(df_t_wrong) : df_t_wrong[i].word = word_data.word

HasTestWrongAll(df_t_wrong, uid, word_data) ==
    \A i \in 1..Len(df_t_wrong) :
        /\ df_t_wrong[i].student_id = uid
        /\ df_t_wrong[i].word = word_data.word

\* ((df_t_wrong['student_id'] == user_id) & (df_t_wrong['word'] == word)).any()
HasTestWrong(df_t_wrong, uid, word_data) ==
    \E i \in 1..Len(df_t_wrong) :
        /\ df_t_wrong[i].student_id = uid
        /\ df_t_wrong[i].word = word_data.word

\* every row of the student is dropped, whatever its book and word
DropMaskedOfStudent(prog, uid, word_data) ==
    SelectSeq(prog, LAMBDA r : r.student_id # uid)

\* the old record is not dropped before the new one is appended
DropMaskedNone(prog, uid, word_data) == prog

\* df_prog = df_prog[~mask]
DropMasked(prog, uid, word_data) ==
    SelectSeq(prog, LAMBDA r : ~ProgMask(r, uid, word_data))

\* only the new row is saved
ConcatNewOnly(df, new_row) == <<new_row>>

\* pd.concat([df, new_row], ignore_index=True)
Concat(df, new_row) == Append(df, new_row)

\* the point is counted twice
AddPointTwice(score) == score + 2

\* the point is not counted
AddPointNever(score) == score

\* st.session_state['test_score'] += 1
AddPoint(score) == score + 1

\* load_data: the rows of the tab, or the empty frame of the except branch
\* when the connection fails
load_data(tab, loaded) == IF loaded THEN tab ELSE <<>>

\* update_vocab_progress: the tabs and the score it leaves; prog and tw are the
\* tabs as stored, loaded tells whether its load_data call succeeds
update_vocab_progress(prog, tw, score, uid, word_data, is_correct, mode, loaded) ==
    IF IsTest(mode)
    THEN IF is_correct
         THEN [prog |-> prog, tw |-> tw, score |-> AddPoint(score)]
         ELSE LET df_t_wrong == load_data(tw, loaded)
                  new_w == [student_id |-> uid, book |-> word_data.book,
                            word |-> word_data.word, date |-> Today]
              IN [prog |-> prog,
                  tw |-> IF HasTestWrong(df_t_wrong, uid, word_data)
                         THEN tw ELSE Concat(df_t_wrong, new_w),
                  score |-> score]
    ELSE LET df_prog == load_data(prog, loaded)
             current == SelectSeq(df_prog, LAMBDA r : ProgMask(r, uid, word_data))
             streak0 == IF current # <<>> THEN StrToNat(current[1].streak) ELSE 0
             current_status ==
                 IF current # <<>> THEN current[1].status ELSE "learning"
             master_threshold == MasterThreshold(mode, current_status)
             streak == NewStreak(is_correct, streak0)
             status == NewStatus(is_correct, streak, master_threshold)
             new_row == [student_id |-> uid, book |-> word_data.book,
                         word |-> word_data.word, streak |-> NatToStr(streak),
                         status |-> status]
         IN [prog |-> Concat(DropMasked(df_prog, uid, word_data), new_row),
             tw |-> tw,
             score |-> score]

\* ------------------------------------------------------- login / logout
\* login_page: a student's id and password match a row of 'users'
Login(s) ==
    /\ ~logged_in
    /\ logged_in' = TRUE
    /\ user_id' = s
    /\ Ran("login")
    /\ UNCHANGED <<tabs, session, n_sessions>>

\* sidebar button "로그아웃"
Logout ==
    /\ logged_in
    /\ logged_in' = FALSE
    /\ Ran("logout")
    /\ UNCHANGED <<tabs, user_id, session, n_sessions>>

\* ----------------------------------------------------- starting a session
\* show_answer_sub is left as the earlier session had it
StartKeepingReveal(word_list, uid, mode, info) ==
    /\ n_sessions < MaxSessions
    /\ n_sessions' = n_sessions + 1
    /\ study_list' \in Perms(word_list)
    /\ vocab_session' = TRUE
    /\ current_word_idx' = 0
    /\ show_meaning' = FALSE
    /\ session_mode' = mode
    /\ session_user' = uid
    /\ test_score' = 0
    /\ test_info' = info
    /\ last_result' = None
    /\ show_answer_sub' = show_answer_sub
    /\ current_options' = NoOptions
    /\ last_op' = "start"
    /\ pre' = [Snapshot EXCEPT !.idx = 0, !.list = study_list', !.score = 0,
                                !.active = TRUE, !.hist = <<>>,
                                !.call = [items |-> word_list, mode |-> mode,
                                          uid |-> uid, info |-> info,
                                          shown |-> show_meaning,
                                          revealed |-> show_answer_sub,
                                          opts |-> current_options,
                                          result |-> last_result,
                                          typed |-> <<>>, opt |-> None,
                                          loaded |-> TRUE]]
    /\ UNCHANGED <<tabs, login>>

\* start_flashcard_session
start_flashcard_session(word_list, uid, mode, info) ==
    /\ n_sessions < MaxSessions
    /\ n_sessions' = n_sessions + 1
    /\ study_list' \in Perms(word_list)
    /\ vocab_session' = TRUE
    /\ current_word_idx' = 0
    /\ show_meaning' = FALSE
    /\ session_mode' = mode
    /\ session_user' = uid
    /\ test_score' = 0
    /\ test_info' = info
    /\ last_result' = None
    /\ show_answer_sub' = FALSE
    /\ current_options' = NoOptions
    /\ last_op' = "start"
    /\ pre' = [Snapshot EXCEPT !.idx = 0, !.list = study_list', !.score = 0,
                                !.active = TRUE, !.hist = <<>>,
                                !.call = [items |-> word_list, mode |-> mode,
                                          uid |-> uid, info |-> info,
                                          shown |-> show_meaning,
                                          revealed |-> show_answer_sub,
                                          opts |-> current_options,
                                          result |-> last_result,
                                          typed |-> <<>>, opt |-> None,
                                          loaded |-> TRUE]]
    /\ UNCHANGED <<tabs, login>>

\* df_prog[(df_prog['student_id']==user_id) & (df_prog['word']==r['word'])]
ProgOfWord(prog, uid, word) ==
    SelectSeq(prog, LAMBDA q : q.student_id = uid /\ q.word = word)

\* target = b_vocab[b_vocab['day'] == s_day]
Target(s_book, s_day) ==
    SelectSeq(vocab, LAMBDA v : v.book = s_book /\ v.day = s_day)

\* the queue of "🚀 전체 학습"
LearnAllList(prog, uid, s_book, s_day) ==
    SelectSeq(Target(s_book, s_day), LAMBDA r :
        LET p == ProgOfWord(prog, uid, r.word)
        IN ~(p # <<>> /\ p[1].status = "mastered"))

\* the queue of "❌ 오답만"
LearnWrongList(prog, uid, s_book, s_day) ==
    SelectSeq(Target(s_book, s_day), LAMBDA r :
        LET p == ProgOfWord(prog, uid, r.word)
        IN p # <<>> /\ p[1].status = "learning")

BtnLearnAll(s_book, s_day, mode_code) ==
    /\ logged_in
    /\ Target(s_book, s_day) # <<>>
    /\ start_flashcard_session(LearnAllList(vocab_prog, user_id, s_book, s_day),
                               user_id, mode_code, <<>>)

BtnLearnWrongChap(s_book, s_day, mode_code) ==
    /\ logged_in
    /\ Target(s_book, s_day) # <<>>
    /\ LearnWrongList(vocab_prog, user_id, s_book, s_day) # <<>>
    /\ start_flashcard_session(LearnWrongList(vocab_prog, user_id, s_book, s_day),
                               user_id, mode_code, <<>>)

\* df_prog[(df_prog['student_id']==user_id) & (df_prog['status']==status)]
ProgWithStatus(prog, uid, status) ==
    SelectSeq(prog, LAMBDA q : q.student_id = uid /\ q.status = status)

\* "🔥 플래시카드 재학습" and "✍️ 주관식 재학습" of the wrong-word tab
BtnWrongRestudy(mode_code) ==
    /\ logged_in
    /\ ProgWithStatus(vocab_prog, user_id, "learning") # <<>>
    /\ start_flashcard_session(
           MergeVocab(ProgWithStatus(vocab_prog, user_id, "learning")),
           user_id, mode_code, <<>>)

\* "♻️ 마스터 단어 복습"
BtnReviewMaster ==
    /\ logged_in
    /\ ProgWithStatus(vocab_prog, user_id, "mastered") # <<>>
    /\ start_flashcard_session(
           MergeVocab(ProgWithStatus(vocab_prog, user_id, "mastered")),
           user_id, "review", <<>>)

\* pool = t_v[t_v['day'].isin(days_rng)]
Pool(t_book, s_d, e_d) ==
    SelectSeq(vocab, LAMBDA v : v.book = t_book /\ s_d <= v.day /\ v.day <= e_d)

\* "🏁 테스트 시작"; pool.sample raises when q_cnt exceeds the pool
BtnStartTest(t_book, s_d, e_d, t_mode, q_cnt) ==
    /\ logged_in
    /\ n_sessions < MaxTests
    /\ {s_d, e_d} \subseteq {v.day : v \in Range(SelectSeq(vocab, LAMBDA v : v.book = t_book))}
    /\ Pool(t_book, s_d, e_d) # <<>>
    /\ q_cnt >= MinQuestions
    /\ q_cnt <= Max(Len(Pool(t_book, s_d, e_d)), MinQuestions)
    /\ q_cnt <= Len(Pool(t_book, s_d, e_d))
    /\ \E test_set \in Sample(Pool(t_book, s_d, e_d), q_cnt) :
           start_flashcard_session(test_set, user_id, t_mode,
                                   <<t_book, s_d, e_d, t_mode>>)

\* my_tw = df_tw[df_tw['student_id'] == user_id]
MyTw(tw, uid) == SelectSeq(tw, LAMBDA q : q.student_id = uid)

\* "🔥 오답 학습하기" of the cumulative test-wrong tab
BtnStudyTw ==
    /\ logged_in
    /\ MyTw(vocab_test_wrongs, user_id) # <<>>
    /\ start_flashcard_session(MergeVocab(MyTw(vocab_test_wrongs, user_id)),
                               user_id, "learning", <<>>)

\* df_tw[~((df_tw['student_id']==user_id) & (df_tw['word']==del_w))]
DeleteTw(tw, uid, del_w) ==
    SelectSeq(tw, LAMBDA q : ~(q.student_id = uid /\ q.word = del_w))

\* "삭제" of the cumulative test-wrong tab
BtnDelTw(del_w) ==
    /\ logged_in
    /\ del_w \in {q.word : q \in Range(MyTw(vocab_test_wrongs, user_id))}
    /\ vocab_test_wrongs' = DeleteTw(vocab_test_wrongs, user_id, del_w)
    /\ Ran("delete_tw")
    /\ UNCHANGED <<vocab, vocab_prog, vocab_test_log, login, session, n_sessions>>

\* ------------------------------------------------- render_flashcard_session
total == Len(study_list)

AdvanceStay(idx) == idx

AdvanceTwice(idx) == idx + 2

\* st.session_state['current_word_idx'] += 1
Advance(idx) == idx + 1

\* a card is on screen: the session is alive and the queue is not exhausted
CardShown ==
    /\ logged_in
    /\ vocab_session
    /\ current_word_idx < total

FinishedEarly ==
    /\ logged_in
    /\ vocab_session
    /\ current_word_idx + 1 >= total

\* the queue is exhausted and the completion message is on screen
Finished ==
    /\ logged_in
    /\ vocab_session
    /\ current_word_idx >= total

current_word == study_list[current_word_idx + 1]

\* the call update_vocab_progress(user_id, current_word, is_correct, mode)
\* of the handlers, with user_id = st.session_state['session_user']
RecordAnswerWhen(is_correct, loaded) ==
    LET r == update_vocab_progress(vocab_prog, vocab_test_wrongs, test_score,
                                   session_user, current_word, is_correct,
                                   session_mode, loaded)
    IN /\ vocab_prog' = r.prog
       /\ vocab_test_wrongs' = r.tw
       /\ test_score' = r.score

\* the call when the tab is loaded as stored
RecordAnswer(is_correct) == RecordAnswerWhen(is_correct, TRUE)

\* the meanings the distractors are drawn from
SameBookWords(book_text) ==
    LET same == SelectSeq(vocab, LAMBDA v : v.book = book_text)
    IN IF Len(same) < 4
       THEN [i \in 1..Len(vocab) |-> vocab[i].meaning]
       ELSE [i \in 1..Len(same) |-> same[i].meaning]

\* distractors = list(set([m for m in same_book_words if m != meaning_text]))
Distractors(book_text, meaning_text) ==
    {m \in Range(SameBookWords(book_text)) : m # meaning_text}

\* every value of options after random.sample and random.shuffle
OptionLists(book_text, meaning_text) ==
    LET d == Distractors(book_text, meaning_text)
        picked == IF Cardinality(d) >= 3
                  THEN {S \in SUBSET d : Cardinality(S) = 3}
                  ELSE {d}
    IN UNION {UNION {Perms(l \o <<meaning_text>>) : l \in SetToSeqs(S)} : S \in picked}

\* the objective card is rendered for the first time: options are cached
RenderOptions ==
    /\ CardShown
    /\ session_mode = "test_objective"
    /\ current_options = NoOptions
    /\ current_options' \in OptionLists(current_word.book, current_word.meaning)
    /\ Ran("render_options")
    /\ UNCHANGED <<tabs, login, vocab_session, study_list, current_word_idx,
                   show_meaning, session_mode, session_user, test_score,
                   test_info, last_result, show_answer_sub, n_sessions>>

\* opt == meaning_text
JudgeObjective(opt, meaning_text) == opt = meaning_text

\* one of the option buttons of the objective test
ClickOptionWhen(i, loaded) ==
    /\ CardShown
    /\ session_mode = "test_objective"
    /\ current_options # NoOptions
    /\ i \in 1..Len(current_options)
    /\ LET ok == JudgeObjective(current_options[i], current_word.meaning)
       IN /\ last_result' = IF ok THEN "correct" ELSE "wrong"
          /\ RecordAnswerWhen(ok, loaded)
    /\ current_word_idx' = Advance(current_word_idx)
    /\ current_options' = NoOptions
    /\ RanLoading("click_option", [NoCall EXCEPT !.opt = current_options[i]], loaded)
    /\ UNCHANGED <<vocab, vocab_test_log, login, vocab_session, study_list,
                   show_meaning, session_mode, session_user, test_info,
                   show_answer_sub, n_sessions>>

\* an option button, the tab loaded as stored
ClickOption(i) == ClickOptionWhen(i, TRUE)

SubjectiveCard ==
    /\ CardShown
    /\ session_mode \in {"subjective", "test_subjective"}

\* user_input.lower() == word_text.lower(), user_input already stripped
JudgeSubjective(user_input, word_text) == lower(user_input) = lower(word_text)

\* "제출" with a matching input
SubmitCorrectWhen(typed, loaded) ==
    /\ SubjectiveCard
    /\ ~show_answer_sub
    /\ JudgeSubjective(strip(typed), current_word.word)
    /\ last_result' = "correct"
    /\ RecordAnswerWhen(TRUE, loaded)
    /\ current_word_idx' = Advance(current_word_idx)
    /\ RanLoading("submit_correct", [NoCall EXCEPT !.typed = typed], loaded)
    /\ UNCHANGED <<vocab, vocab_test_log, login, vocab_session, study_list,
                   show_meaning, session_mode, session_user, test_info,
                   show_answer_sub, current_options, n_sessions>>

\* "제출" with a matching input, the tab loaded as stored
SubmitCorrect(typed) == SubmitCorrectWhen(typed, TRUE)

\* "제출" with a mismatching input: "틀렸습니다. 다시 시도해보세요."
SubmitWrong(typed) ==
    /\ SubjectiveCard
    /\ ~show_answer_sub
    /\ ~JudgeSubjective(strip(typed), current_word.word)
    /\ last_result' = "wrong"
    /\ RanTyped("submit_wrong", typed)
    /\ UNCHANGED <<tabs, login, vocab_session, study_list, current_word_idx,
                   show_meaning, session_mode, session_user, test_score,
                   test_info, show_answer_sub, current_options, n_sessions>>

\* the give-up click moves to the next card at once
GiveUpAdvancing ==
    /\ SubjectiveCard
    /\ ~show_answer_sub
    /\ last_result' = "wrong"
    /\ show_answer_sub' = TRUE
    /\ current_word_idx' = Advance(current_word_idx)
    /\ Ran("give_up")
    /\ UNCHANGED <<tabs, login, vocab_session, study_list,
                   show_meaning, session_mode, session_user, test_score,
                   test_info, current_options, n_sessions>>

\* "모르겠어요 (정답)"
GiveUp ==
    /\ SubjectiveCard
    /\ ~show_answer_sub
    /\ last_result' = "wrong"
    /\ show_answer_sub' = TRUE
    /\ Ran("give_up")
    /\ UNCHANGED <<tabs, login, vocab_session, study_list, current_word_idx,
                   show_meaning, session_mode, session_user, test_score,
                   test_info, current_options, n_sessions>>

\* "다음 문제" of the copy form
NextAfterCopyWhen(loaded) ==
    /\ SubjectiveCard
    /\ show_answer_sub
    /\ RecordAnswerWhen(FALSE, loaded)
    /\ show_answer_sub' = FALSE
    /\ last_result' = None
    /\ current_word_idx' = Advance(current_word_idx)
    /\ RanLoading("copy_next", NoCall, loaded)
    /\ UNCHANGED <<vocab, vocab_test_log, login, vocab_session, study_list,
                   show_meaning, session_mode, session_user, test_info,
                   current_options, n_sessions>>

\* "다음 문제", the tab loaded as stored
NextAfterCopy == NextAfterCopyWhen(TRUE)

FlashCard ==
    /\ CardShown
    /\ session_mode \notin {"test_objective", "subjective", "test_subjective"}

RevealKeepingHidden ==
    /\ FlashCard
    /\ ~show_meaning
    /\ show_meaning' = FALSE
    /\ Ran("reveal")
    /\ UNCHANGED <<tabs, login, vocab_session, study_list, current_word_idx,
                   session_mode, session_user, test_score, test_info,
                   last_result, show_answer_sub, current_options, n_sessions>>

\* "뜻 확인하기 👁️"
RevealMeaning ==
    /\ FlashCard
    /\ ~show_meaning
    /\ show_meaning' = TRUE
    /\ Ran("reveal")
    /\ UNCHANGED <<tabs, login, vocab_session, study_list, current_word_idx,
                   session_mode, session_user, test_score, test_info,
                   last_result, show_answer_sub, current_options, n_sessions>>

\* the meaning stays on screen for the next card
KnowLeavingMeaning ==
    /\ FlashCard
    /\ show_meaning
    /\ last_result' = "correct"
    /\ RecordAnswer(TRUE)
    /\ current_word_idx' = Advance(current_word_idx)
    /\ show_meaning' = show_meaning
    /\ RanLoading("know", NoCall, TRUE)
    /\ UNCHANGED <<vocab, vocab_test_log, login, vocab_session, study_list,
                   session_mode, session_user, test_info, show_answer_sub,
                   current_options, n_sessions>>

\* "⭕ 알아요"
KnowWhen(loaded) ==
    /\ FlashCard
    /\ show_meaning
    /\ last_result' = "correct"
    /\ RecordAnswerWhen(TRUE, loaded)
    /\ current_word_idx' = Advance(current_word_idx)
    /\ show_meaning' = FALSE
    /\ RanLoading("know", NoCall, loaded)
    /\ UNCHANGED <<vocab, vocab_test_log, login, vocab_session, study_list,
                   session_mode, session_user, test_info, show_answer_sub,
                   current_options, n_sessions>>

\* "⭕ 알아요", the tab loaded as stored
Know == KnowWhen(TRUE)

\* "❌ 몰라요"
DontKnowWhen(loaded) ==
    /\ FlashCard
    /\ show_meaning
    /\ last_result' = "wrong"
    /\ RecordAnswerWhen(FALSE, loaded)
    /\ current_word_idx' = Advance(current_word_idx)
    /\ show_meaning' = FALSE
    /\ RanLoading("dont_know", NoCall, loaded)
    /\ UNCHANGED <<vocab, vocab_test_log, login, vocab_session, study_list,
                   session_mode, session_user, test_info, show_answer_sub,
                   current_options, n_sessions>>

\* "❌ 몰라요", the tab loaded as stored
DontKnow == DontKnowWhen(TRUE)

\* the total is written before the score
ScoreTextSwapped(score, n) == NatToStr(n) \o <<"/">> \o NatToStr(score)

\* f"{score}/{total}"
ScoreText(score, n) == NatToStr(score) \o <<"/">> \o NatToStr(n)

\* "결과 저장 및 종료"
SaveTestAndEnd ==
    /\ Finished
    /\ IsTest(session_mode)
    /\ vocab_test_log' = Append(vocab_test_log,
           [student_id |-> session_user, date |-> Today, info |-> test_info,
            score |-> ScoreText(test_score, total)])
    /\ vocab_session' = FALSE
    /\ last_result' = None
    /\ Ran("save_test")
    /\ UNCHANGED <<vocab, vocab_prog, vocab_test_wrongs, login, study_list,
                   current_word_idx, show_meaning, session_mode, session_user,
                   test_score, test_info, show_answer_sub, current_options,
                   n_sessions>>

\* "종료"
EndLearn ==
    /\ Finished
    /\ ~IsTest(session_mode)
    /\ vocab_session' = FALSE
    /\ last_result' = None
    /\ Ran("end_learn")
    /\ UNCHANGED <<tabs, login, study_list, current_word_idx, show_meaning,
                   session_mode, session_user, test_score, test_info,
                   show_answer_sub, current_options, n_sessions>>

\* ---------------------------------------------------------- specification
ProgRow(s, b, w, streak, status) ==
    [student_id |-> s, book |-> b, word |-> w, streak |-> streak, status |-> status]

TwRow(s, b, w) == [student_id |-> s, book |-> b, word |-> w, date |-> Today]

\* vocab_prog tabs left by earlier study sessions (each is reached from the
\* empty tab by chapter sessions on day 1 and a review):
\*   none yet;
\*   s2 knew b1/at once, s1 knew b1/at twice;
\*   s1 knew b1/at twice and once more in a review;
\*   s1 did not know b1/at, then knew b2/at three times in chapter sessions.
InitProgs ==
    { <<>>,
      <<ProgRow("s2", "b1", W_AT, <<"1">>, "learning"),
        ProgRow("s1", "b1", W_AT, <<"2">>, "mastered")>>,
      <<ProgRow("s1", "b1", W_AT, <<"3">>, "learning")>>,
      <<ProgRow("s1", "b1", W_AT, <<"0">>, "learning"),
        ProgRow("s1", "b2", W_AT, <<"3">>, "mastered")>> }

\* vocab_test_wrongs tab left by earlier tests: s2 missed b1/be, s1 missed b1/at
InitTestWrongs ==
    { <<TwRow("s2", "b1", W_BE), TwRow("s1", "b1", W_AT)>> }

Init == InitWith(Catalog, InitProgs, InitTestWrongs)

ChapterModes == {"learning", "subjective"}

\* the study (non-test) part of the program
NextLearn ==
    \/ \E s \in Students : Login(s)
    \/ \E b \in Books, d \in Days, m \in ChapterModes : BtnLearnAll(b, d, m)
    \/ \E b \in Books, d \in Days, m \in ChapterModes : BtnLearnWrongChap(b, d, m)
    \/ \E m \in ChapterModes : BtnWrongRestudy(m)
    \/ BtnReviewMaster
    \/ BtnStudyTw
    \/ \E w \in Words : BtnDelTw(w)
    \/ \E typed \in UserInputs : SubmitCorrect(typed)
    \/ \E typed \in UserInputs : SubmitWrong(typed)
    \/ GiveUp
    \/ NextAfterCopy
    \/ RevealMeaning
    \/ Know
    \/ DontKnow
    \/ EndLearn

Spec == Init /\ [][NextLearn]_vars

\* the cumulative-test part of the program; s1 takes the test and deletes
\* test-wrong entries before it
InitTest ==
    InitWith(Catalog,
             {<<ProgRow("s2", "b1", W_AT, <<"1">>, "learning"),
                ProgRow("s1", "b1", W_AT, <<"2">>, "mastered")>>},
             InitTestWrongs)

NextTest ==
    \/ Login("s1")
    \/ \E b \in Books, sd \in Days, ed \in Days, m \in TestModes,
          q \in MinQuestions..Len(Catalog) : BtnStartTest(b, sd, ed, m, q)
    \/ \E w \in Words : (n_sessions = 0 /\ BtnDelTw(w))
    \/ RenderOptions
    \/ \E i \in 1..4 : ClickOption(i)
    \/ \E typed \in UserInputs : SubmitCorrect(typed)
    \/ \E typed \in UserInputs : SubmitWrong(typed)
    \/ GiveUp
    \/ NextAfterCopy
    \/ SaveTestAndEnd

SpecTest == InitTest /\ [][NextTest]_vars

\* chapter study only ("🚀 전체 학습"), from the tab nobody has studied yet and
\* from the tab in which s2 knew b1/at once and s1 knew it twice
InitChapter ==
    InitWith(Catalog,
             {<<>>,
              <<ProgRow("s2", "b1", W_AT, <<"1">>, "learning"),
                ProgRow("s1", "b1", W_AT, <<"2">>, "mastered")>>},
             InitTestWrongs)

NextChapter ==
    \/ \E s \in Students : Login(s)
    \/ \E b \in Books, d \in Days, m \in ChapterModes : BtnLearnAll(b, d, m)
    \/ \E typed \in UserInputs : SubmitCorrect(typed)
    \/ \E typed \in UserInputs : SubmitWrong(typed)
    \/ GiveUp
    \/ NextAfterCopy
    \/ RevealMeaning
    \/ Know
    \/ DontKnow
    \/ EndLearn

SpecChapter == InitChapter /\ [][NextChapter]_vars

\* a session started while another one is unfinished: s1 starts a cumulative
\* test or studies day 2 of b1, and studies day 2 of b1 again at any moment
NextRestart ==
    \/ Login("s1")
    \/ \E b \in Books, sd \in Days, ed \in Days, m \in TestModes,
          q \in MinQuestions..Len(Catalog) : BtnStartTest(b, sd, ed, m, q)
    \/ \E m \in ChapterModes : BtnLearnAll("b1", 2, m)
    \/ RenderOptions
    \/ \E i \in 1..4 : ClickOption(i)
    \/ \E typed \in UserInputs : SubmitCorrect(typed)
    \/ \E typed \in UserInputs : SubmitWrong(typed)
    \/ GiveUp
    \/ NextAfterCopy
    \/ RevealMeaning
    \/ Know
    \/ DontKnow
    \/ SaveTestAndEnd
    \/ EndLearn

SpecRestart == InitTest /\ [][NextRestart]_vars

\* answering over a connection that may fail: each load_data call of
\* update_vocab_progress either returns the tab as stored or, the connection
\* failing, the empty frame; s1 takes the typed test or studies day 2 of b1
NextOutage ==
    \/ Login("s1")
    \/ \E b \in Books, sd \in Days, ed \in Days, q \in MinQuestions..Len(Catalog) :
           BtnStartTest(b, sd, ed, "test_subjective", q)
    \/ \E m \in ChapterModes : BtnLearnAll("b1", 2, m)
    \/ \E typed \in UserInputs, loaded \in BOOLEAN : SubmitCorrectWhen(typed, loaded)
    \/ \E typed \in UserInputs : SubmitWrong(typed)
    \/ GiveUp
    \/ \E loaded \in BOOLEAN : NextAfterCopyWhen(loaded)
    \/ RevealMeaning
    \/ \E loaded \in BOOLEAN : KnowWhen(loaded)
    \/ \E loaded \in BOOLEAN : DontKnowWhen(loaded)
    \/ SaveTestAndEnd
    \/ EndLearn

SpecOutage == InitTest /\ [][NextOutage]_vars

\* students sharing one browser session: chapter study with logout and login
NextRelogin ==
    \/ \E s \in Students : Login(s)
    \/ Logout
    \/ \E b \in Books, d \in Days, m \in ChapterModes : BtnLearnAll(b, d, m)
    \/ \E typed \in UserInputs : SubmitCorrect(typed)
    \/ \E typed \in UserInputs : SubmitWrong(typed)
    \/ GiveUp
    \/ NextAfterCopy
    \/ RevealMeaning
    \/ Know
    \/ DontKnow
    \/ EndLearn

SpecRelogin == InitChapter /\ [][NextRelogin]_vars

\* chapter study from the vocab_prog tab nobody has studied yet
InitFresh == InitWith(Catalog, {<<>>}, InitTestWrongs)

SpecFresh == InitFresh /\ [][NextChapter]_vars

\* chapter study once s1 holds records of the word "at" in both books: s1 did
\* not know b1/at, then knew b2/at in two chapter sessions
InitShared ==
    InitWith(Catalog,
             {<<ProgRow("s1", "b1", W_AT, <<"0">>, "learning"),
                ProgRow("s1", "b2", W_AT, <<"2">>, "mastered")>>},
             InitTestWrongs)

SpecShared == InitShared /\ [][NextChapter]_vars

\* sessions of all five modes: s1 starts a cumulative test of five questions,
\* day 2 of b1 or the review of the mastered words, at any moment, and mistypes
\* an answer any number of times
NextSession ==
    \/ Login("s1")
    \/ \E m \in TestModes : BtnStartTest("b1", 1, 3, m, MinQuestions)
    \/ \E m \in ChapterModes : BtnLearnAll("b1", 2, m)
    \/ BtnReviewMaster
    \/ RenderOptions
    \/ \E i \in 1..4 : ClickOption(i)
    \/ \E typed \in UserInputs : SubmitCorrect(typed)
    \/ SubmitWrong(<<"a">>)
    \/ GiveUp
    \/ NextAfterCopy
    \/ RevealMeaning
    \/ Know
    \/ DontKnow
    \/ SaveTestAndEnd
    \/ EndLearn

\* the handlers that leave the card on screen
LeaveCard ==
    \/ \E i \in 1..4 : ClickOption(i)
    \/ \E typed \in UserInputs : SubmitCorrect(typed)
    \/ NextAfterCopy
    \/ Know
    \/ DontKnow

\* the page draws the options of an objective card by itself on the next run
\* of the script; the student does not forever avoid the reveal button nor the
\* buttons that leave the card
SessionFairness ==
    /\ WF_vars(RenderOptions)
    /\ WF_vars(RevealMeaning)
    /\ WF_vars(LeaveCard)

SpecSession == InitTest /\ [][NextSession]_vars /\ SessionFairness

\* ------------------------------------------------------------------ claims
\* the handlers that submit an answer, and the one that completes the copy step
SubmitOps == {"click_option", "submit_correct", "submit_wrong", "know", "dont_know"}

\* the handlers that call update_vocab_progress
RecordingOps == {"click_option", "submit_correct", "know", "dont_know", "copy_next"}

\* the item the last handler was about
Answered == pre.list[pre.idx + 1]

\* the rows of one (student, book, word) key
RowsOf(prog, uid, item) == SelectSeq(prog, LAMBDA r : ProgMask(r, uid, item))

\* C1 as stated: every submitted answer, and the copy step that completes a
\* give-up, leaves the cursor one greater than the handler found it.
C1_EveryAnswerAdvances ==
    last_op \in SubmitOps \cup {"copy_next"} => current_word_idx = pre.idx + 1

\* C1 amended: every answer that is recorded (an option click, a matching
\* submission, know / don't know, the completed copy step) advances the cursor
\* by exactly one; a mismatching subjective submission and the give-up click
\* leave the cursor where it was, and the same card stays on screen.
C1_RecordedAnswerAdvances ==
    /\ last_op \in RecordingOps => current_word_idx = pre.idx + 1
    /\ last_op \in {"submit_wrong", "give_up"} =>
           /\ current_word_idx = pre.idx
           /\ vocab_session
           /\ current_word_idx < Len(study_list)

C1_Witness ==
    /\ last_op = "submit_wrong"
    /\ session_mode = "subjective"
    /\ current_word_idx = 1
    /\ pre.idx = 1

\* C2: between two starts the cursor changes only by +1 and the queue is the
\* one the handler found.
C2_CursorStepsQueueFixed ==
    /\ current_word_idx \in {pre.idx, pre.idx + 1}
    /\ study_list = pre.list

C2_Witness ==
    /\ n_sessions = 2
    /\ last_op = "dont_know"
    /\ current_word_idx = 2
    /\ Len(study_list) = 2

\* C3: the cursor never exceeds the queue length, an answer is only taken
\* while the cursor is below it, and completion is acknowledged exactly at it.
C3_TerminatesAtLength ==
    /\ current_word_idx <= Len(study_list)
    /\ last_op \in SubmitOps \cup {"give_up", "copy_next", "reveal"} =>
           pre.idx < Len(study_list)
    /\ last_op \in {"end_learn", "save_test"} => pre.idx = Len(study_list)

C3_Witness ==
    /\ last_op = "end_learn"
    /\ Len(study_list) = 2
    /\ current_word_idx = 2

\* C4 as stated: in a learn/review session, after don't know, a mismatching
\* subjective submission or a completed give-up, the record of the answered
\* word has streak 0 and status learning.
C4_AnyWrongResets ==
    (session_mode \in LearnModes /\ last_op \in {"dont_know", "submit_wrong", "copy_next"}) =>
        LET rows == RowsOf(vocab_prog, session_user, Answered)
        IN /\ rows # <<>>
           /\ \A i \in 1..Len(rows) :
                  rows[i].streak = <<"0">> /\ rows[i].status = "learning"

\* C4 amended: after don't know or a completed give-up the record of the
\* answered (student, book, word) has streak 0 and status learning; a
\* mismatching subjective submission and the give-up click leave vocab_prog as
\* it was.
C4_RecordedWrongResets ==
    /\ (session_mode \in LearnModes /\ last_op \in {"dont_know", "copy_next"}) =>
           LET rows == RowsOf(vocab_prog, session_user, Answered)
           IN /\ Len(rows) = 1
              /\ rows[1].streak = <<"0">>
              /\ rows[1].status = "learning"
    /\ last_op \in {"submit_wrong", "give_up"} => vocab_prog = pre.prog

C4_Witness ==
    /\ last_op = "copy_next"
    /\ session_mode = "subjective"
    /\ RowsOf(pre.prog, session_user, Answered) # <<>>
    /\ RowsOf(pre.prog, session_user, Answered)[1].status = "mastered"

\* the streak and status update_vocab_progress found for the answered key
OldStreak ==
    LET rows == RowsOf(pre.prog, session_user, Answered)
    IN IF rows = <<>> THEN 0 ELSE StrToNat(rows[1].streak)

OldStatus ==
    LET rows == RowsOf(pre.prog, session_user, Answered)
    IN IF rows = <<>> THEN "learning" ELSE rows[1].status

CorrectLearnAnswer ==
    /\ last_op \in {"know", "submit_correct"}
    /\ session_mode \in LearnModes

\* C5: after a correct answer in a non-test mode the record holds streak + 1,
\* and it is mastered exactly when that reaches the threshold: 2 in subjective
\* mode or when the status was learning (or there was no record), 4 otherwise.
C5_CorrectAnswerTransition ==
    CorrectLearnAnswer =>
        LET rows == RowsOf(vocab_prog, session_user, Answered)
            threshold ==
                IF session_mode = "subjective" THEN 2
                ELSE IF OldStatus = "learning" THEN 2 ELSE 4
        IN /\ Len(rows) = 1
           /\ rows[1].streak = NatToStr(OldStreak + 1)
           /\ (rows[1].status = "mastered") = (OldStreak + 1 >= threshold)
           /\ rows[1].status \in {"mastered", "learning"}

C5_Witness ==
    /\ CorrectLearnAnswer
    /\ session_mode = "review"
    /\ OldStatus = "mastered"
    /\ OldStreak = 4
    /\ RowsOf(vocab_prog, session_user, Answered)[1].status = "mastered"

\* C6: one correct subjective answer turns a learning word into a mastered one
\* only if the new streak is at least 2; with no record or streak 0 the word
\* stays learning.
C6_SubjectiveNeedsTwo ==
    (last_op = "submit_correct" /\ session_mode = "subjective"
        /\ OldStatus = "learning") =>
        LET row == RowsOf(vocab_prog, session_user, Answered)[1]
        IN /\ row.status = "mastered" => StrToNat(row.streak) >= 2
           /\ OldStreak = 0 => row.status = "learning"

C6_Witness ==
    /\ last_op = "submit_correct"
    /\ session_mode = "subjective"
    /\ OldStatus = "learning"
    /\ OldStreak = 1
    /\ RowsOf(vocab_prog, session_user, Answered)[1].status = "mastered"

\* C7: no handler of a test session changes vocab_prog.
C7_TestLeavesMastery ==
    (session_mode \in TestModes /\ last_op \in SubmitOps \cup {"give_up", "copy_next"}) =>
        vocab_prog = pre.prog

C7_Witness ==
    /\ last_op = "copy_next"
    /\ session_mode = "test_subjective"
    /\ RowsOf(vocab_prog, session_user, Answered) # <<>>

\* C8: an answer of a learning, subjective or review session leaves
\* vocab_test_wrongs as it was, and no handler changes both tabs.
C8_OneSideOnly ==
    /\ (session_mode \in LearnModes /\ last_op \in SubmitOps \cup {"give_up", "copy_next"}) =>
           vocab_test_wrongs = pre.tw
    /\ ~(vocab_prog # pre.prog /\ vocab_test_wrongs # pre.tw)

C8_Witness ==
    /\ last_op = "dont_know"
    /\ vocab_prog # pre.prog
    /\ vocab_test_wrongs # <<>>
    /\ ~HasTestWrong(vocab_test_wrongs, session_user, Answered)

\* an answer of a test session that was judged wrong
WrongTestAnswer ==
    /\ session_mode \in TestModes
    /\ \/ last_op = "click_option" /\ last_result = "wrong"
       \/ last_op = "submit_wrong"
       \/ last_op = "copy_next"

\* C9 as stated: after a wrong option, a mismatching subjective-test
\* submission or a completed give-up, vocab_test_wrongs has a row for the
\* student and the word.
C9_EveryWrongTestAnswerLogged ==
    WrongTestAnswer =>
        \E i \in 1..Len(vocab_test_wrongs) :
            /\ vocab_test_wrongs[i].student_id = session_user
            /\ vocab_test_wrongs[i].word = Answered.word

\* C9 amended: after a wrong option or a completed give-up of a test session
\* vocab_test_wrongs has a row for the student and the word; a mismatching
\* subjective-test submission and the give-up click leave the tab as it was.
C9_RecordedWrongTestAnswerLogged ==
    /\ (WrongTestAnswer /\ last_op # "submit_wrong") =>
           \E i \in 1..Len(vocab_test_wrongs) :
               /\ vocab_test_wrongs[i].student_id = session_user
               /\ vocab_test_wrongs[i].word = Answered.word
    /\ (session_mode \in TestModes /\ last_op \in {"submit_wrong", "give_up"}) =>
           vocab_test_wrongs = pre.tw

C9_Witness ==
    /\ WrongTestAnswer
    /\ last_op = "click_option"
    /\ Len(vocab_test_wrongs) = Len(pre.tw) + 1
    /\ \E i \in 1..Len(pre.tw) : pre.tw[i].word = Answered.word

\* C10: vocab_test_wrongs never holds two rows of one (student, word).
C10_TestWrongsDeduplicated ==
    \A i, j \in 1..Len(vocab_test_wrongs) :
        (/\ vocab_test_wrongs[i].student_id = vocab_test_wrongs[j].student_id
         /\ vocab_test_wrongs[i].word = vocab_test_wrongs[j].word) => i = j

C10_Witness ==
    /\ WrongTestAnswer
    /\ last_op = "click_option"
    /\ vocab_test_wrongs = pre.tw
    /\ n_sessions = 1
    /\ \E i \in 1..Len(pre.tw) :
           pre.tw[i].student_id = session_user /\ pre.tw[i].word = Answered.word

\* C11 as stated: vocab_prog never holds two rows of one (student, word).
C11_OnePerStudentWord ==
    \A i, j \in 1..Len(vocab_prog) :
        (/\ vocab_prog[i].student_id = vocab_prog[j].student_id
         /\ vocab_prog[i].word = vocab_prog[j].word) => i = j

\* C11 amended: vocab_prog never holds two rows of one (student, book, word);
\* a word that is in two books has one row per book.
C11_OnePerStudentBookWord ==
    \A i, j \in 1..Len(vocab_prog) :
        (/\ vocab_prog[i].student_id = vocab_prog[j].student_id
         /\ vocab_prog[i].book = vocab_prog[j].book
         /\ vocab_prog[i].word = vocab_prog[j].word) => i = j

C11_Witness ==
    /\ last_op \in {"know", "dont_know", "submit_correct", "copy_next"}
    /\ Len(vocab_prog) = Len(pre.prog) + 1
    /\ \E i, j \in 1..Len(vocab_prog) :
           /\ vocab_prog[i].student_id = vocab_prog[j].student_id
           /\ vocab_prog[i].word = vocab_prog[j].word
           /\ vocab_prog[i].book = "b1"
           /\ vocab_prog[j].book = "b2"

\* a row of the key the last handler answered
IsAnsweredKey(r) ==
    /\ r.student_id = session_user
    /\ r.book = Answered.book
    /\ r.word = Answered.word

\* an answer of a learning, subjective or review session was recorded
LearnAnswerRecorded ==
    /\ last_op \in {"know", "dont_know", "submit_correct", "copy_next"}
    /\ session_mode \in LearnModes

\* C12: after a recorded answer of a non-test session vocab_prog has exactly
\* one row of the answered (student, book, word), and it carries the new
\* streak together with the new status; the rows of every other key are the
\* rows the handler found, in the same order.
C12_RecordReplacedWhole ==
    LearnAnswerRecorded =>
        LET mine == SelectSeq(vocab_prog, IsAnsweredKey)
            was == SelectSeq(pre.prog, IsAnsweredKey)
            correct == last_op \in {"know", "submit_correct"}
            old_streak == IF was = <<>> THEN 0 ELSE StrToNat(was[1].streak)
            old_status == IF was = <<>> THEN "learning" ELSE was[1].status
            limit == IF session_mode = "subjective" \/ old_status = "learning"
                     THEN 2 ELSE 4
        IN /\ Len(mine) = 1
           /\ mine[1].streak = (IF correct THEN NatToStr(old_streak + 1) ELSE <<"0">>)
           /\ mine[1].status =
                  (IF correct /\ old_streak + 1 >= limit THEN "mastered" ELSE "learning")
           /\ SelectSeq(vocab_prog, LAMBDA r : ~IsAnsweredKey(r))
                  = SelectSeq(pre.prog, LAMBDA r : ~IsAnsweredKey(r))

C12_Witness ==
    /\ LearnAnswerRecorded
    /\ last_op = "know"
    /\ SelectSeq(pre.prog, IsAnsweredKey) # <<>>
    /\ \E i \in 1..Len(pre.prog) : pre.prog[i].student_id # session_user
    /\ \E i \in 1..Len(pre.prog) :
           pre.prog[i].student_id = session_user /\ pre.prog[i].word # Answered.word
    /\ SelectSeq(vocab_prog, IsAnsweredKey)[1].status = "mastered"

\* the handlers of a card: answers, give-up, copy step, reveal, option render
CardOps == SubmitOps \cup {"give_up", "copy_next", "reveal", "render_options"}

\* C13: a card handler of any mode leaves every row vocab_test_wrongs had, in
\* place and unaltered (new rows only follow them), and a correct test answer
\* leaves the tab as it was; "삭제" removes exactly the rows of the logged-in
\* student and the chosen word and leaves vocab_prog alone; no other handler
\* changes the tab.
C13_TestWrongsAppendOnly ==
    /\ last_op \in CardOps =>
           /\ Len(vocab_test_wrongs) >= Len(pre.tw)
           /\ SubSeq(vocab_test_wrongs, 1, Len(pre.tw)) = pre.tw
    /\ (last_op \in {"click_option", "submit_correct"} /\ last_result = "correct") =>
           vocab_test_wrongs = pre.tw
    /\ last_op = "delete_tw" =>
           /\ \E w \in Words :
                  /\ \E i \in 1..Len(pre.tw) :
                         pre.tw[i].student_id = user_id /\ pre.tw[i].word = w
                  /\ vocab_test_wrongs =
                         SelectSeq(pre.tw, LAMBDA q : ~(q.student_id = user_id /\ q.word = w))
           /\ vocab_prog = pre.prog
    /\ last_op \notin CardOps \cup {"delete_tw"} => vocab_test_wrongs = pre.tw

C13_Witness ==
    /\ last_op = "submit_correct"
    /\ session_mode = "test_subjective"
    /\ \E i \in 1..Len(vocab_test_wrongs) :
           /\ vocab_test_wrongs[i].student_id = session_user
           /\ vocab_test_wrongs[i].word = Answered.word
    /\ Len(vocab_test_wrongs) = 3
    /\ vocab_test_wrongs = pre.tw

\* the number of places of list s that hold x
RECURSIVE Count(_, _)
Count(s, x) ==
    IF s = <<>> THEN 0
    ELSE (IF Head(s) = x THEN 1 ELSE 0) + Count(Tail(s), x)

\* C14: right after start_flashcard_session, whatever it found, the queue
\* holds the items it was called with (each as often, so the length is the
\* same), the cursor and the score are 0, mode, owner and test info are the
\* ones supplied, the session is active, the meaning is hidden, the answer is
\* not revealed, no options are cached and there is no last result.
C14_StartIsFresh ==
    last_op = "start" =>
        /\ Len(study_list) = Len(pre.call.items)
        /\ \A x \in Range(pre.call.items) \cup Range(study_list) :
               Count(study_list, x) = Count(pre.call.items, x)
        /\ current_word_idx = 0
        /\ test_score = 0
        /\ session_mode = pre.call.mode
        /\ session_user = pre.call.uid
        /\ test_info = pre.call.info
        /\ vocab_session
        /\ ~show_meaning
        /\ ~show_answer_sub
        /\ current_options = NoOptions
        /\ last_result = None

C14_Witness ==
    /\ last_op = "start"
    /\ n_sessions = 2
    /\ pre.call.opts # NoOptions
    /\ pre.call.result = "wrong"
    /\ pre.score = 0
    /\ Len(study_list) = 2
    /\ study_list[1].word = W_DO

\* the last handler took an answer that was judged correct in a test session
CorrectTestAnswer ==
    /\ session_mode \in TestModes
    /\ last_op \in {"click_option", "submit_correct"}
    /\ last_result = "correct"

\* C15: a handler leaves the score as it found it or one greater; it is one
\* greater exactly after an answer judged correct in a test session; in a
\* learning, subjective or review session the score is 0.
C15_ScoreOnlyCorrectTest ==
    /\ test_score \in {pre.score, pre.score + 1}
    /\ (test_score = pre.score + 1) = CorrectTestAnswer
    /\ session_mode \in LearnModes => test_score = 0

C15_Witness ==
    /\ CorrectTestAnswer
    /\ last_op = "click_option"
    /\ current_word_idx = 3
    /\ pre.score = 1
    /\ test_score = 2

\* two characters that are the same letter, whatever their case
SameLetter(c, d) ==
    \/ c = d
    \/ {c, d} \in {{"a", "A"}, {"b", "B"}}

\* two texts that are equal when letter case is ignored
EqualIgnoringCase(a, b) ==
    /\ Len(a) = Len(b)
    /\ \A i \in 1..Len(a) : SameLetter(a[i], b[i])

\* text without the blanks around it: the part between the first and the last
\* character that is not a blank
Trimmed(text) ==
    LET solid == {i \in 1..Len(text) : text[i] # " "}
    IN IF solid = {} THEN <<>>
       ELSE SubSeq(text,
                   CHOOSE i \in solid : \A k \in solid : i <= k,
                   CHOOSE j \in solid : \A k \in solid : k <= j)

\* C16: a submission is judged correct exactly when the typed text, blanks
\* around it removed, equals the word of the card with letter case ignored, and
\* an option exactly when it is the meaning of the card; a submission or option
\* that is not judged correct is judged wrong.
C16_ExactMatchJudging ==
    /\ last_op \in {"submit_correct", "submit_wrong"} =>
           /\ (last_op = "submit_correct")
                  = EqualIgnoringCase(Trimmed(pre.call.typed), Answered.word)
           /\ last_result = (IF last_op = "submit_correct" THEN "correct" ELSE "wrong")
    /\ last_op = "click_option" =>
           /\ (last_result = "correct") = (pre.call.opt = Answered.meaning)
           /\ last_result \in {"correct", "wrong"}

C16_Witness ==
    /\ last_op = "submit_correct"
    /\ session_mode = "test_subjective"
    /\ pre.call.typed = <<" ", "a", "t", " ">>
    /\ Answered.word = W_AT
    /\ test_score = 2

\* the candidate meanings of a card: those of the rows of its book when the
\* book has at least 4, else those of the whole catalog
Candidates(item) ==
    LET same == SelectSeq(vocab, LAMBDA v : v.book = item.book)
    IN IF Len(same) >= 4 THEN same ELSE vocab

\* C17: the options rendered for an objective card hold the meaning of the card
\* once, the other options are pairwise distinct, and when there are at least
\* 4 candidate meanings there are exactly 3 of them, so 4 options.
C17_ThreeDistinctDistractors ==
    (last_op = "render_options" /\ session_mode = "test_objective") =>
        LET wrong == SelectSeq(current_options, LAMBDA o : o # current_word.meaning)
        IN /\ Len(current_options) = Len(wrong) + 1
           /\ \A i, j \in 1..Len(wrong) : wrong[i] = wrong[j] => i = j
           /\ Len(Candidates(current_word)) >= 4 =>
                  Len(wrong) = 3 /\ Len(current_options) = 4

\* C18: the give-up click leaves the cursor, the score and the three tabs as
\* it found them and enters the reveal state; while the answer is revealed a card
\* of a subjective session is on screen and no handler has moved the cursor;
\* the completed copy step leaves the reveal state, advances the cursor by one
\* and records one wrong answer for the card: in a non-test session the one row
\* of the card has streak 0 and status learning and the other rows are as
\* before, in a test session vocab_test_wrongs has the row of the student and
\* the word, at most one row more than before, and the score is as before.
C18_GiveUpDefersAdvance ==
    /\ last_op = "give_up" =>
           /\ show_answer_sub
           /\ current_word_idx = pre.idx
           /\ test_score = pre.score
           /\ vocab_prog = pre.prog
           /\ vocab_test_wrongs = pre.tw
           /\ vocab_test_log = pre.log
    /\ show_answer_sub =>
           /\ vocab_session
           /\ session_mode \in {"subjective", "test_subjective"}
           /\ current_word_idx < Len(study_list)
           /\ current_word_idx = pre.idx
           /\ last_op \notin RecordingOps
    /\ last_op = "copy_next" =>
           /\ ~show_answer_sub
           /\ last_result = None
           /\ current_word_idx = pre.idx + 1
           /\ test_score = pre.score
           /\ vocab_test_log = pre.log
           /\ session_mode \in LearnModes =>
                  LET mine == SelectSeq(vocab_prog, IsAnsweredKey)
                  IN /\ Len(mine) = 1
                     /\ mine[1].streak = <<"0">>
                     /\ mine[1].status = "learning"
                     /\ SelectSeq(vocab_prog, LAMBDA r : ~IsAnsweredKey(r))
                            = SelectSeq(pre.prog, LAMBDA r : ~IsAnsweredKey(r))
                     /\ vocab_test_wrongs = pre.tw
           /\ session_mode \in TestModes =>
                  /\ vocab_prog = pre.prog
                  /\ Len(vocab_test_wrongs) \in {Len(pre.tw), Len(pre.tw) + 1}
                  /\ SubSeq(vocab_test_wrongs, 1, Len(pre.tw)) = pre.tw
                  /\ Cardinality({i \in 1..Len(vocab_test_wrongs) :
                         /\ vocab_test_wrongs[i].student_id = session_user
                         /\ vocab_test_wrongs[i].word = Answered.word}) = 1

C18_Witness ==
    /\ last_op = "copy_next"
    /\ session_mode = "subjective"
    /\ current_word_idx = 2
    /\ n_sessions = 2
    /\ SelectSeq(pre.prog, IsAnsweredKey) # <<>>
    /\ SelectSeq(pre.prog, IsAnsweredKey)[1].streak = <<"1">>

\* C19 as stated: the answer is revealed only in a session of mode subjective.
C19_RevealOnlySubjective ==
    show_answer_sub => session_mode = "subjective"

\* C19 amended: the answer is revealed only while a card of a subjective or
\* test_subjective session is on screen, never in a test_objective, learning
\* or review session.
C19_RevealOnlySubjectiveModes ==
    show_answer_sub =>
        /\ session_mode \in {"subjective", "test_subjective"}
        /\ vocab_session
        /\ current_word_idx < Len(study_list)

C19_Witness ==
    /\ show_answer_sub
    /\ last_op = "give_up"
    /\ session_mode = "test_subjective"
    /\ current_word_idx = 1

\* the handlers that acknowledge a completed session
AckOps == {"save_test", "end_learn"}

\* the text before and after the "/" of a score
ScoreLeft(text) ==
    SubSeq(text, 1, (CHOOSE k \in 1..Len(text) : text[k] = "/") - 1)

ScoreRight(text) ==
    SubSeq(text, (CHOOSE k \in 1..Len(text) : text[k] = "/") + 1, Len(text))

\* C20: only an acknowledgement deactivates a session, and it is given only
\* on an active session whose cursor is at the queue length; "결과 저장 및 종료"
\* of a test session appends one row to vocab_test_log, of the session owner,
\* with the score as "score/total", and changes no other tab; "종료" of a
\* non-test session changes no tab; no other handler changes vocab_test_log,
\* which never has more rows than sessions were started.
C20_AcknowledgedCompletion ==
    /\ last_op \notin AckOps => vocab_session = pre.active
    /\ last_op \in AckOps =>
           /\ pre.active
           /\ pre.idx = Len(pre.list)
           /\ ~vocab_session
           /\ vocab_prog = pre.prog
           /\ vocab_test_wrongs = pre.tw
    /\ last_op = "save_test" =>
           /\ session_mode \in TestModes
           /\ Len(vocab_test_log) = Len(pre.log) + 1
           /\ SubSeq(vocab_test_log, 1, Len(pre.log)) = pre.log
           /\ LET row == vocab_test_log[Len(vocab_test_log)]
              IN /\ row.student_id = session_user
                 /\ row.info = test_info
                 /\ Cardinality({k \in 1..Len(row.score) : row.score[k] = "/"}) = 1
                 /\ ScoreLeft(row.score) = NatToStr(test_score)
                 /\ StrToNat(ScoreLeft(row.score)) = test_score
                 /\ StrToNat(ScoreRight(row.score)) = Len(study_list)
    /\ last_op = "end_learn" =>
           /\ session_mode \in LearnModes
           /\ vocab_test_log = pre.log
    /\ last_op # "save_test" => vocab_test_log = pre.log
    /\ Len(vocab_test_log) <= n_sessions

C20_Witness ==
    /\ last_op = "save_test"
    /\ session_mode = "test_objective"
    /\ test_score = 3
    /\ Len(study_list) = 5
    /\ vocab_test_log[1].score = <<"3", "/", "5">>
    /\ vocab_test_log[1].student_id = "s1"

\* C21: in every step, a card that comes on screen (after a start or an
\* advance) has its meaning hidden; the meaning gets shown only by the reveal
\* handler, on the card that is on screen, and stays shown only while that card
\* stays; know / don't know run only in a learning or review session with the
\* meaning shown, and they hide it and advance the cursor by one.
C21_RevealBeforeJudge ==
    [][ /\ (last_op' = "start" \/ current_word_idx' # current_word_idx) =>
               ~show_meaning'
        /\ (~show_meaning /\ show_meaning') =>
               /\ last_op' = "reveal"
               /\ session_mode \in {"learning", "review"}
               /\ current_word_idx' = current_word_idx
               /\ study_list' = study_list
        /\ (show_meaning /\ show_meaning') =>
               /\ current_word_idx' = current_word_idx
               /\ study_list' = study_list
               /\ last_op' \notin {"know", "dont_know", "start"}
        /\ last_op' \in {"know", "dont_know"} =>
               /\ show_meaning
               /\ ~show_meaning'
               /\ session_mode \in {"learning", "review"}
               /\ current_word_idx' = current_word_idx + 1
      ]_vars

C21_Witness ==
    /\ last_op = "know"
    /\ session_mode = "review"
    /\ current_word_idx = 1
    /\ ~show_meaning
    /\ n_sessions = 2

\* the last handler called update_vocab_progress and the load_data call it
\* made failed (a correct test answer loads nothing)
AnsweredOverFailedLoad ==
    /\ last_op \in RecordingOps
    /\ ~pre.call.loaded
    /\ ~(session_mode \in TestModes /\ last_result = "correct")

\* C22: after an answer recorded over a failed load, every row vocab_prog and
\* vocab_test_wrongs had for another student, book or word is still in the tab.
C22_OtherRowsSurviveFailedLoad ==
    AnsweredOverFailedLoad =>
        /\ \A i \in 1..Len(pre.prog) :
               ~IsAnsweredKey(pre.prog[i]) =>
                   \E j \in 1..Len(vocab_prog) : vocab_prog[j] = pre.prog[i]
        /\ \A i \in 1..Len(pre.tw) :
               ~(pre.tw[i].student_id = session_user /\ pre.tw[i].word = Answered.word) =>
                   \E j \in 1..Len(vocab_test_wrongs) : vocab_test_wrongs[j] = pre.tw[i]

\* C23: whenever an answer has been recorded, the session owner the row was
\* written for is the user who is logged in, and the row carries that id.
C23_WritesForLoggedInUser ==
    last_op \in RecordingOps =>
        /\ logged_in
        /\ session_user = user_id
        /\ \A i \in 1..Len(vocab_prog) :
               (\A j \in 1..Len(pre.prog) : pre.prog[j] # vocab_prog[i]) =>
                   vocab_prog[i].student_id = user_id

\* C24: while a session is active 0 <= score <= cursor <= queue length and
\* every position below the cursor was left by one answer; in a test session
\* the score is the number of those positions left by a correct answer, so that
\* with the cursor at the queue length the score plus the number of positions
\* left by a wrong answer or a give-up is the total; in a non-test session the
\* score is 0.
C24_ScoreCountsCorrect ==
    vocab_session =>
        /\ 0 <= test_score
        /\ test_score <= current_word_idx
        /\ current_word_idx <= Len(study_list)
        /\ Len(pre.hist) = current_word_idx
        /\ session_mode \in TestModes =>
               /\ test_score = Count(pre.hist, "correct")
               /\ current_word_idx = Len(study_list) =>
                      test_score + Count(pre.hist, "wrong") = Len(study_list)
        /\ session_mode \in LearnModes => test_score = 0

C24_Witness ==
    /\ vocab_session
    /\ session_mode = "test_subjective"
    /\ current_word_idx = Len(study_list)
    /\ Len(study_list) = 5
    /\ test_score = 3
    /\ pre.hist = <<"correct", "wrong", "correct", "wrong", "correct">>

\* C25: every row of vocab_prog has a streak that is a number >= 0 written in
\* digits and a status learning or mastered, and a mastered row has a streak
\* of at least 2.
C25_MasteredHasStreakTwo ==
    \A i \in 1..Len(vocab_prog) :
        LET r == vocab_prog[i]
        IN /\ r.streak # <<>>
           /\ \A k \in 1..Len(r.streak) : r.streak[k] \in Range(Digits)
           /\ StrToNat(r.streak) >= 0
           /\ r.status \in {"learning", "mastered"}
           /\ r.status = "mastered" => StrToNat(r.streak) >= 2

C25_Witness ==
    /\ last_op \in {"know", "submit_correct"}
    /\ Len(vocab_prog) = 2
    /\ vocab_prog[2].status = "mastered"
    /\ vocab_prog[2].streak = <<"2">>
    /\ vocab_prog[1].status = "learning"
    /\ vocab_prog[1].streak = <<"0">>

\* C26: after a correct answer of a learning, subjective or review session on
\* a word whose record was mastered, the record is mastered.
C26_CorrectKeepsMastered ==
    (CorrectLearnAnswer /\ OldStatus = "mastered") =>
        LET mine == SelectSeq(vocab_prog, IsAnsweredKey)
        IN /\ mine # <<>>
           /\ \A i \in 1..Len(mine) : mine[i].status = "mastered"

\* the words of a chapter that are not mastered in the record of
\* (student, book, word)
Unmastered(prog, uid, s_book, s_day) ==
    {r \in Range(Target(s_book, s_day)) :
        \A i \in 1..Len(prog) :
            (prog[i].student_id = uid /\ prog[i].book = r.book /\ prog[i].word = r.word)
                => prog[i].status = "learning"}

\* C27: the queue that "study all" hands to the session holds exactly the
\* words of one chapter (book and day) whose record for (student, book, word)
\* is absent or has status learning, so no mastered word is queued.
C27_LearnAllSkipsMastered ==
    last_op = "start" =>
        \E b \in Books, d \in Days :
            /\ Target(b, d) # <<>>
            /\ Range(pre.call.items) = Unmastered(pre.prog, pre.call.uid, b, d)

\* C28: a session of n items ends. The cursor equals the number of handlers
\* that left a card since the start and never passes n; while a card is on
\* screen some handler is enabled; and under SessionFairness every running
\* session reaches the completion state, where the cursor is n.
C28_SessionTerminates ==
    /\ [](vocab_session => /\ current_word_idx = Len(pre.hist)
                            /\ current_word_idx <= total)
    /\ [](CardShown => ENABLED <<LeaveCard \/ RevealMeaning \/ GiveUp \/ RenderOptions>>_vars)
    /\ (vocab_session ~> (Finished /\ current_word_idx = total))

\* a test of five questions and a chapter session of two words were played to
\* the end
C28_Witness ==
    /\ Finished
    /\ total \in {2, 5}
    /\ Len(pre.hist) = total
    /\ last_op \in RecordingOps

====
